---------------------------- MODULE Spec2Model ----------------------------
(***************************************************************************)
(* A model of zmes-parser: the binary array decoder (decodeBlob), the      *)
(* parse entry point with its database handle, the parameter tree builder  *)
(* (buildParameterTree), the value extractor (extractValue, convertNode)   *)
(* and the projection to MeasurementXY (toMeasurementXY).                  *)
(*                                                                         *)
(* Each component has its own specification (SpecDecode, SpecParse,        *)
(* SpecTree, SpecExtract, SpecConvert, SpecProject): its Init draws the    *)
(* component's inputs from bounded sets and leaves the other components    *)
(* idle, and its actions apply the component's code.                       *)
(***************************************************************************)
EXTENDS Integers, Sequences, FiniteSets, TLC

VARIABLES
    \* decodeBlob: the blob is padding \o entries \o trailing bytes
    padding,        \* bytes before the first written entry
    entries,        \* the doubles written, each as marker + 8 bytes
    trailing,       \* bytes after the last written entry
    decoded,        \* whether decodeBlob has run on the blob
    decodeResult,   \* what decodeBlob returned (or that it threw)
    \* parse
    parsePc,        \* position inside openDatabase / parse
    handle,         \* the sqlite3.oo1.DB handle: "none", "open", "closed"
    closeCalls,     \* number of database.close() calls
    outcome,        \* "running", "returned", "failed"
    dbFault,        \* which query of this database throws, if any
    recordTable,    \* rows of StandardRecords
    groupTable,     \* rows of StandardRecordGroups
    rawRecords,     \* the RawRecord rows readRecords returned
    badRoots,       \* root type ids whose tree cannot be built
    records,        \* the ZmesRecord list built so far
    treeBuilds,     \* number of buildParameterTree calls
    \* buildParameterTree
    typeTable,      \* ids of the rows of RecordParameterTypes
    nodeTable,      \* rows of RecordParameterTreeNodes, in storage order
    loadedRows,     \* the rows the tree-node query returned
    treeBuilt,      \* whether buildParameterTree has run
    treeResult,     \* the tree it returned, or the error it threw
    \* extractValue
    exDataType,     \* ParameterDataType of the node
    exRow,          \* the RawDataRow
    exDone,         \* whether extractValue has run
    exValue,        \* the value it returned
    \* convertNode / readParameterData
    cvTree,         \* the TreeNode tree given to readParameterData
    cvData,         \* dataMap: tree node id -> RawDataRow
    cvDone,         \* whether readParameterData has run
    cvParam,        \* the ZmesParameter it returned
    \* toMeasurementXY
    zmesFile,       \* the ZmesFile given to toMeasurementXY
    projected,      \* whether toMeasurementXY has run
    measurements,   \* the MeasurementXY array it returned
    \* findParameter / findParameterDeep
    findRoot,       \* the ZmesParameter searched
    findName,       \* the name searched for
    findCalled,     \* which of the two functions has run, "none" before
    findResult      \* what it returned

decodeVars  == <<padding, entries, trailing, decoded, decodeResult>>
parseVars   == <<parsePc, handle, closeCalls, outcome, dbFault, recordTable,
                 groupTable, rawRecords, badRoots, records, treeBuilds>>
treeVars    == <<typeTable, nodeTable, loadedRows, treeBuilt, treeResult>>
extractVars == <<exDataType, exRow, exDone, exValue>>
convertVars == <<cvTree, cvData, cvDone, cvParam>>
projectVars == <<zmesFile, projected, measurements>>
findVars    == <<findRoot, findName, findCalled, findResult>>
vars == <<decodeVars, parseVars, treeVars, extractVars, convertVars, projectVars,
          findVars>>

\* A nullable value (a SQL column, a JavaScript `T | null` or `T | undefined`)
\* is NULL or Some(v).
NULL == <<>>
Some(v) == <<v>>
\* The value of a variable of a component that has not run.
UNDEFINED == "undefined"

(***************************************************************************)
(* Bounds of the model                                                     *)
(***************************************************************************)
MaxPadChunks == 2
MaxEntries == 2
MaxTrailing == 1
MaxRecords == 2
MaxTableWeight == 4
MaxTreeNodes == 3
MaxFileNodes == 3
MaxFindNodes == 4
MaxSettingsNodes == 2

(***************************************************************************)
(* decodeBlob.ts                                                           *)
(***************************************************************************)
\* const ENTRY_MARKER = new Uint8Array([0x06, 0x01, 0x01, 0x01, 0x02, 0x01])
ENTRY_MARKER == <<6, 1, 1, 1, 2, 1>>

\* const ENTRY_SIZE = 14
ENTRY_SIZE == 14

\* An IEEE 754 double as its fields: sign (1 bit), exponent (11 bits) and the
\* 52-bit fraction in three limbs of 20, 16 and 16 bits.
Float64(s, e, fh, fm, fl) == [sign |-> s, exp |-> e, fracHi |-> fh, fracMid |-> fm, fracLo |-> fl]

\* DataView.prototype.setFloat64(0, value, true) followed by
\* Array.from(new Uint8Array(buffer)): the 8 bytes of a double, little-endian
\* (least significant byte first), as the tests build an entry.
SetFloat64LE(d) ==
    << d.fracLo % 256, d.fracLo \div 256,
       d.fracMid % 256, d.fracMid \div 256,
       d.fracHi % 256, (d.fracHi \div 256) % 256,
       (d.exp % 16) * 16 + d.fracHi \div 65536,
       d.sign * 128 + d.exp \div 16 >>

\* getFloat64 reading the 8 bytes most significant byte first.
GetFloat64BE(blob, byteOffset) ==
    LET b(k) == blob[byteOffset + 1 + k] IN
    Float64(b(0) \div 128,
            (b(0) % 128) * 16 + b(1) \div 16,
            (b(1) % 16) * 65536 + b(2) * 256 + b(3),
            b(4) * 256 + b(5),
            b(6) * 256 + b(7))

\* dataView.getFloat64(byteOffset, true): the double whose little-endian bytes
\* are blob[byteOffset .. byteOffset + 7] (0-based offsets; blob is 1-based).
GetFloat64LE(blob, byteOffset) ==
    LET b(k) == blob[byteOffset + 1 + k] IN
    Float64(b(7) \div 128,
            (b(7) % 128) * 16 + b(6) \div 16,
            (b(6) % 16) * 65536 + b(5) * 256 + b(4),
            b(3) * 256 + b(2),
            b(1) * 256 + b(0))

\* The inner loop of findMarker: blob[i + j] === ENTRY_MARKER[j] for j from
\* `j` up to ENTRY_MARKER.length - 1.
RECURSIVE MatchAt(_, _, _)
MatchAt(blob, i, j) ==
    IF j >= Len(ENTRY_MARKER) THEN TRUE
    ELSE IF blob[i + j + 1] # ENTRY_MARKER[j + 1] THEN FALSE
    ELSE MatchAt(blob, i, j + 1)

\* The outer loop of findMarker from offset i: the first offset in i..end at
\* which the marker matches, or -1.
RECURSIVE FindFrom(_, _)
FindFrom(blob, i) ==
    LET end == Len(blob) - Len(ENTRY_MARKER) IN
    IF i > end THEN -1
    ELSE IF MatchAt(blob, i, 0) THEN i
    ELSE FindFrom(blob, i + 1)

findMarker(blob) == FindFrom(blob, 0)

\* decodeBlob without its `markerOffset === -1` early return.
decodeBlobNoGuard(blob) ==
    LET markerOffset == findMarker(blob)
        remainingBytes == Len(blob) - markerOffset
        count == remainingBytes \div ENTRY_SIZE
        at(i) == markerOffset + i * ENTRY_SIZE + 6
    IN  IF \E i \in 0..(count - 1) : at(i) < 0 \/ at(i) + 8 > Len(blob)
        THEN [threw |-> TRUE, data |-> <<>>]
        ELSE [threw |-> FALSE,
              data |-> [k \in 1..count |-> GetFloat64LE(blob, at(k - 1))]]

\* decodeBlob ending at the first stride that does not begin with the marker.
decodeBlobVerifiesMarkers(blob) ==
    LET markerOffset == findMarker(blob)
        remainingBytes == Len(blob) - markerOffset
        count == remainingBytes \div ENTRY_SIZE
        at(i) == markerOffset + i * ENTRY_SIZE + 6
        marked == { n \in 0..count :
                      \A i \in 0..(n - 1) :
                          MatchAt(blob, markerOffset + i * ENTRY_SIZE, 0) }
        verified == CHOOSE n \in marked : \A k \in marked : k <= n
    IN  IF markerOffset = -1 THEN [threw |-> FALSE, data |-> <<>>]
        ELSE [threw |-> FALSE,
              data |-> [k \in 1..verified |-> GetFloat64LE(blob, at(k - 1))]]

\* decodeBlob with Math.ceil in the place of Math.floor.
decodeBlobCountsPartialEntry(blob) ==
    LET markerOffset == findMarker(blob)
        remainingBytes == Len(blob) - markerOffset
        count == (remainingBytes + ENTRY_SIZE - 1) \div ENTRY_SIZE
        at(i) == markerOffset + i * ENTRY_SIZE + 6
    IN  IF markerOffset = -1 THEN [threw |-> FALSE, data |-> <<>>]
        ELSE IF \E i \in 0..(count - 1) : at(i) + 8 > Len(blob)
        THEN [threw |-> TRUE, data |-> <<>>]
        ELSE [threw |-> FALSE,
              data |-> [k \in 1..count |-> GetFloat64LE(blob, at(k - 1))]]

\* decodeBlob(blob): `threw` is a RangeError of getFloat64 (a read that does
\* not lie inside the DataView), `data` the Float64Array returned otherwise.
decodeBlob(blob) ==
    LET markerOffset == findMarker(blob)
        remainingBytes == Len(blob) - markerOffset
        count == remainingBytes \div ENTRY_SIZE
        at(i) == markerOffset + i * ENTRY_SIZE + 6
    IN  IF markerOffset = -1 THEN [threw |-> FALSE, data |-> <<>>]
        ELSE IF \E i \in 0..(count - 1) : at(i) + 8 > Len(blob)
        THEN [threw |-> TRUE, data |-> <<>>]
        ELSE [threw |-> FALSE,
              data |-> [k \in 1..count |-> GetFloat64LE(blob, at(k - 1))]]

(***************************************************************************)
(* Inputs of decodeBlob                                                    *)
(***************************************************************************)
\* 42.5 = 0x4045400000000000, 1 = 0x3FF0000000000000, and the subnormal whose
\* little-endian bytes are 06 01 01 01 02 01 00 00 (they start like a marker).
Doubles == { Float64(0, 1028, 344064, 0, 0),
             Float64(0, 1023, 0, 0, 0),
             Float64(0, 0, 258, 257, 262) }

\* The first five bytes of the marker, and the marker with a wrong last byte.
MarkerPrefix == <<6, 1, 1, 1, 2>>
NearMarker == <<6, 1, 1, 1, 2, 2>>

\* What a blob's header is made of: single bytes, a whole marker, a marker cut
\* short, a near marker, and eight zero bytes.
PadChunks == { <<0>>, <<1>>, <<6>>, ENTRY_MARKER, MarkerPrefix, NearMarker,
               <<0, 0, 0, 0, 0, 0, 0, 0>> }

TrailingBytes == {0, 6}

RECURSIVE Flatten(_)
Flatten(chunks) ==
    IF chunks = <<>> THEN <<>> ELSE Head(chunks) \o Flatten(Tail(chunks))

RECURSIVE EncodeEntries(_)
EncodeEntries(vs) ==
    IF vs = <<>> THEN <<>>
    ELSE ENTRY_MARKER \o SetFloat64LE(Head(vs)) \o EncodeEntries(Tail(vs))

\* The blob handed to decodeBlob.
Blob == Flatten(padding) \o EncodeEntries(entries) \o trailing

ContainsMarker(bytes) ==
    \E i \in 1..(Len(bytes) - 5) : SubSeq(bytes, i, i + 5) = ENTRY_MARKER

(***************************************************************************)
(* Idle components: the state of a component no action of the              *)
(* specification under check touches.                                      *)
(***************************************************************************)
IdleDecode ==
    /\ padding = <<>> /\ entries = <<>> /\ trailing = <<>>
    /\ decoded = FALSE /\ decodeResult = UNDEFINED

IdleParse ==
    /\ parsePc = "idle" /\ handle = "none" /\ closeCalls = 0
    /\ outcome = "running" /\ dbFault = "none" /\ rawRecords = <<>>
    /\ recordTable = {} /\ groupTable = {}
    /\ badRoots = {} /\ records = <<>> /\ treeBuilds = 0

IdleTree ==
    /\ typeTable = {} /\ nodeTable = <<>> /\ loadedRows = <<>>
    /\ treeBuilt = FALSE /\ treeResult = UNDEFINED

IdleExtract ==
    /\ exDataType = UNDEFINED /\ exRow = UNDEFINED /\ exDone = FALSE
    /\ exValue = UNDEFINED

IdleConvert ==
    /\ cvTree = UNDEFINED /\ cvData = <<>> /\ cvDone = FALSE
    /\ cvParam = UNDEFINED

IdleFind ==
    /\ findRoot = UNDEFINED /\ findName = UNDEFINED
    /\ findCalled = "none" /\ findResult = UNDEFINED

IdleProject ==
    /\ zmesFile = UNDEFINED /\ projected = FALSE /\ measurements = <<>>

(***************************************************************************)
(* SpecDecode: a caller assembles a blob and hands it to decodeBlob        *)
(***************************************************************************)
InitDecode ==
    /\ IdleDecode /\ IdleParse /\ IdleTree /\ IdleExtract /\ IdleConvert
    /\ IdleProject
    /\ IdleFind

\* The writer puts one more chunk of header bytes before the first entry.
AppendPadding ==
    /\ ~decoded /\ entries = <<>> /\ trailing = <<>>
    /\ Len(padding) < MaxPadChunks
    /\ \E c \in PadChunks : padding' = Append(padding, c)
    /\ UNCHANGED <<entries, trailing, decoded, decodeResult>>
    /\ UNCHANGED <<parseVars, treeVars, extractVars, convertVars, projectVars,
                 findVars>>

\* The writer appends one entry: the marker and a double, little-endian.
AppendEntry ==
    /\ ~decoded /\ trailing = <<>>
    /\ Len(entries) < MaxEntries
    /\ \E d \in Doubles : entries' = Append(entries, d)
    /\ UNCHANGED <<padding, trailing, decoded, decodeResult>>
    /\ UNCHANGED <<parseVars, treeVars, extractVars, convertVars, projectVars,
                 findVars>>

\* The blob ends with a byte that belongs to no complete entry.
AppendTrailing ==
    /\ ~decoded
    /\ Len(trailing) < MaxTrailing
    /\ \E b \in TrailingBytes : trailing' = Append(trailing, b)
    /\ UNCHANGED <<padding, entries, decoded, decodeResult>>
    /\ UNCHANGED <<parseVars, treeVars, extractVars, convertVars, projectVars,
                 findVars>>

\* decodeBlob(blob)
Decode ==
    /\ ~decoded
    /\ decoded' = TRUE
    /\ decodeResult' = decodeBlob(Blob)
    /\ UNCHANGED <<padding, entries, trailing>>
    /\ UNCHANGED <<parseVars, treeVars, extractVars, convertVars, projectVars,
                 findVars>>

NextDecode == AppendPadding \/ AppendEntry \/ AppendTrailing \/ Decode

SpecDecode == InitDecode /\ [][NextDecode]_vars

\* C1: decodeBlob returns an empty sequence and raises no error for the empty
\* blob and for every blob that does not contain the 6-byte marker.
C1_NoMarkerGivesEmpty ==
    (decoded /\ ~ContainsMarker(Blob))
        => (decodeResult.threw = FALSE /\ decodeResult.data = <<>>)

\* C1 witness: decodeBlob has run on a blob of at least 14 bytes, long enough
\* for the marker scan to visit several offsets, that holds no marker.
C1_Witness == decoded /\ Len(Blob) >= ENTRY_SIZE /\ ~ContainsMarker(Blob)

\* C2 as stated: for every padding and every N >= 1 values, decoding padding
\* followed by the N entries returns exactly the N values in order.
C2_AnyPaddingRoundTrip ==
    (decoded /\ Len(entries) >= 1 /\ trailing = <<>>)
        => (decodeResult.threw = FALSE /\ decodeResult.data = entries)

\* C2 amended: for every padding that does not itself contain the marker and
\* every N >= 1 values, decoding padding followed by the N entries returns
\* exactly the N values in order.
C2_MarkerFreePaddingRoundTrip ==
    (decoded /\ Len(entries) >= 1 /\ trailing = <<>>
            /\ ~ContainsMarker(Flatten(padding)))
        => (decodeResult.threw = FALSE /\ decodeResult.data = entries)

\* C2 witness: a non-empty marker-free padding followed by two entries has
\* been decoded.
C2_Witness ==
    /\ decoded /\ Len(entries) = 2 /\ trailing = <<>>
    /\ Len(padding) >= 1 /\ ~ContainsMarker(Flatten(padding))
    /\ entries[1] # entries[2]

\* The byte offset of the first occurrence of the marker in the blob.
FirstMarkerOffset ==
    CHOOSE o \in 0..(Len(Blob) - 6) :
        /\ SubSeq(Blob, o + 1, o + 6) = ENTRY_MARKER
        /\ \A q \in 0..(o - 1) : SubSeq(Blob, q + 1, q + 6) # ENTRY_MARKER

\* C15: for a blob whose first marker is at offset o, decodeBlob returns
\* exactly floor((length - o) / 14) values, the i-th having as its
\* little-endian bytes the eight bytes at o + 14 i + 6: the bytes after the
\* last complete stride are dropped, and the six bytes at o + 14 i play no
\* part for i >= 1.
C15_StrideDecoding ==
    (decoded /\ ContainsMarker(Blob)) =>
        LET o == FirstMarkerOffset
            count == (Len(Blob) - o) \div 14
        IN  /\ decodeResult.threw = FALSE
            /\ Len(decodeResult.data) = count
            /\ \A i \in 0..(count - 1) :
                  SetFloat64LE(decodeResult.data[i + 1])
                      = SubSeq(Blob, o + 14 * i + 7, o + 14 * i + 14)

\* C15 witness: a blob has been decoded whose first marker begins a stride
\* that is followed by a second complete stride not beginning with the
\* marker and by bytes short of a third stride; two values were returned.
C15_Witness ==
    /\ decoded /\ ContainsMarker(Blob)
    /\ Len(decodeResult.data) = 2
    /\ (Len(Blob) - FirstMarkerOffset) % 14 # 0
    /\ SubSeq(Blob, FirstMarkerOffset + 15, FirstMarkerOffset + 20) # ENTRY_MARKER

\* C26: every read of decodeBlob lies inside the blob: decodeBlob raises no
\* out-of-range error on any blob, the i-th double it returns was read from
\* the 8 bytes that end at marker offset + 14 * i + 14 <= blob length, it
\* returns floor((blob length - marker offset) / 14) doubles, and none when
\* the first marker lies within the last 13 bytes of the blob.
C26_ReadsInsideBlob ==
    decoded =>
        /\ decodeResult.threw = FALSE
        /\ ContainsMarker(Blob) =>
              /\ Len(decodeResult.data) = (Len(Blob) - FirstMarkerOffset) \div 14
              /\ \A i \in 0..(Len(decodeResult.data) - 1) :
                    FirstMarkerOffset + 14 * i + 6 + 8 <= Len(Blob)
              /\ Len(Blob) - FirstMarkerOffset <= 13 => decodeResult.data = <<>>

\* C26 witness: decodeBlob has run on a blob whose first marker comes after
\* some header bytes and lies within the last 13 bytes; the result is empty.
C26_Witness ==
    /\ decoded /\ ContainsMarker(Blob)
    /\ FirstMarkerOffset > 0
    /\ Len(Blob) - FirstMarkerOffset > 6
    /\ Len(Blob) - FirstMarkerOffset <= 13
    /\ decodeResult = [threw |-> FALSE, data |-> <<>>]

(***************************************************************************)
(* openDatabase.ts and parse.ts: parse(data)                               *)
(***************************************************************************)
\* The tables the queries of parse read; a table the file lacks makes the
\* query that names it throw.
Tables == { "SchemaMeta", "StoreMetadata", "StandardRecords",
            "StandardRecordGroups", "RecordParameterTypes", "RecordParameterTreeNodes",
            "RecordParameterData" }

\* RootParameterTypeId values of the record rows.
RootTypeIds == {1, 2}

\* Id values of the rows of StandardRecordGroups.
GroupIds == {1, 2}

\* Guid, CreatedDateTime and ModifiedDateTime of the StandardRecords row of an
\* Id, and Guid of the StandardRecordGroups row of an Id.
RecordGuids == << "1c90a5c0-581d", "9d2c7e10-33aa", "5b1f0c44-7e02" >>

CreatedDateTimes == << "2026-02-20 13:18:16", "2026-02-20 13:25:02",
                       "2026-02-21 09:00:41" >>

ModifiedDateTimes == << "2026-02-20 13:19:50", "2026-02-20 13:26:37",
                        "2026-02-21 09:02:13" >>

GroupGuids == << "f14ead7b-bca1", "c0ffee00-1234" >>

\* GivenName of a StandardRecordGroups row: NULL or a text.
GivenNames == { NULL, Some("Batch A") }

\* A row of StandardRecords.
RecordRow(id, rootTypeId, groupId) ==
    [Id |-> id, Guid |-> RecordGuids[id],
     CreatedDateTime |-> CreatedDateTimes[id],
     ModifiedDateTime |-> ModifiedDateTimes[id],
     RootParameterTypeId |-> rootTypeId, GroupId |-> groupId]

\* A row of StandardRecordGroups.
GroupRow(id, givenName) ==
    [Id |-> id, Guid |-> GroupGuids[id], GivenName |-> givenName]

\* The StandardRecords tables whose rows have distinct Ids among `ids`.
RecordTables(ids) ==
    UNION { { { RecordRow(i, f[i][1], f[i][2]) : i \in S }
              : f \in [S -> RootTypeIds \X GroupIds] }
            : S \in SUBSET ids }

\* The StandardRecordGroups tables whose rows have distinct Ids among `ids`.
GroupTables(ids) ==
    UNION { { { GroupRow(i, f[i]) : i \in S } : f \in [S -> GivenNames] }
            : S \in SUBSET ids }

\* `ORDER BY r.Id` over a set of selected rows.
RECURSIVE OrderById(_)
OrderById(rows) ==
    IF rows = {} THEN <<>>
    ELSE LET first == CHOOSE r \in rows : \A q \in rows : r.id <= q.id
         IN  <<first>> \o OrderById(rows \ {first})

\* readRecords(database): the SELECT over StandardRecords r JOIN
\* StandardRecordGroups g ON r.GroupId = g.Id, ORDER BY r.Id.
readRecords(recordRows, groupRows) ==
    OrderById({ [id |-> p[1].Id, guid |-> p[1].Guid,
                 createdDateTime |-> p[1].CreatedDateTime,
                 modifiedDateTime |-> p[1].ModifiedDateTime,
                 rootParameterTypeId |-> p[1].RootParameterTypeId,
                 groupId |-> p[2].Id, groupGuid |-> p[2].Guid,
                 groupName |-> p[2].GivenName]
                : p \in { q \in recordRows \X groupRows :
                             q[1].GroupId = q[2].Id } })

\* The object buildRecords pushes for a RawRecord; `parameters` is kept as the
\* root type its tree was built for.
RecordOf(raw) ==
    [id |-> raw.id, guid |-> raw.guid,
     group |-> IF raw.groupName # NULL
               THEN [id |-> raw.groupId, guid |-> raw.groupGuid,
                     name |-> raw.groupName[1]]
               ELSE [id |-> raw.groupId, guid |-> raw.groupGuid],
     createdDateTime |-> raw.createdDateTime,
     modifiedDateTime |-> raw.modifiedDateTime,
     rootParameterTypeId |-> raw.rootParameterTypeId]

\* `finally { database.close() }`: the exit of the try block of parse.
Finally(result) ==
    /\ handle' = "closed"
    /\ closeCalls' = closeCalls + 1
    /\ outcome' = result
    /\ parsePc' = "done"

\* An exit of parse that does not pass through its try block.
ExitWithoutFinally(result) ==
    /\ outcome' = result
    /\ parsePc' = "done"
    /\ UNCHANGED <<handle, closeCalls>>

InitParse ==
    /\ parsePc = "initModule" /\ handle = "none" /\ closeCalls = 0
    /\ outcome = "running" /\ records = <<>> /\ treeBuilds = 0
    /\ dbFault \in Tables \cup {"none"}
    /\ recordTable \in RecordTables(1..MaxRecords)
    /\ groupTable \in GroupTables(GroupIds)
    /\ rawRecords = <<>>
    /\ badRoots \in SUBSET RootTypeIds
    /\ IdleDecode /\ IdleTree /\ IdleExtract /\ IdleConvert /\ IdleProject
    /\ IdleFind

\* openDatabase: `await sqlite3InitModule()`; a rejected promise leaves parse
\* before any handle exists.
OpenInitModule ==
    /\ parsePc = "initModule"
    /\ \/ parsePc' = "newDB" /\ UNCHANGED <<handle, closeCalls, outcome>>
       \/ ExitWithoutFinally("failed")
    /\ UNCHANGED <<dbFault, recordTable, groupTable, rawRecords, badRoots, records,
                 treeBuilds>>
    /\ UNCHANGED <<decodeVars, treeVars, extractVars, convertVars, projectVars,
                 findVars>>

\* openDatabase: `new sqlite3.oo1.DB()` and the `database.pointer === undefined`
\* check; either can throw, and then there is no open handle.
OpenNewDB ==
    /\ parsePc = "newDB"
    /\ \/ /\ handle' = "open"
          /\ parsePc' = "deserialize"
          /\ UNCHANGED <<closeCalls, outcome>>
       \/ ExitWithoutFinally("failed")
    /\ UNCHANGED <<dbFault, recordTable, groupTable, rawRecords, badRoots, records,
                 treeBuilds>>
    /\ UNCHANGED <<decodeVars, treeVars, extractVars, convertVars, projectVars,
                 findVars>>

\* openDatabase: allocFromTypedArray, sqlite3_deserialize and
\* `database.checkRc(resultCode)`. An allocation failure or a non-zero result
\* code throws out of openDatabase, hence out of parse at its first line,
\* which is before the try block.
OpenDeserialize ==
    /\ parsePc = "deserialize"
    /\ \/ parsePc' = "schemaVersion" /\ UNCHANGED <<handle, closeCalls, outcome>>
       \/ ExitWithoutFinally("failed")
    /\ UNCHANGED <<dbFault, recordTable, groupTable, rawRecords, badRoots, records,
                 treeBuilds>>
    /\ UNCHANGED <<decodeVars, treeVars, extractVars, convertVars, projectVars,
                 findVars>>

\* readSchemaVersion(database)
ReadSchemaVersion ==
    /\ parsePc = "schemaVersion"
    /\ IF dbFault = "SchemaMeta"
       THEN Finally("failed")
       ELSE parsePc' = "metadata" /\ UNCHANGED <<handle, closeCalls, outcome>>
    /\ UNCHANGED <<dbFault, recordTable, groupTable, rawRecords, badRoots, records,
                 treeBuilds>>
    /\ UNCHANGED <<decodeVars, treeVars, extractVars, convertVars, projectVars,
                 findVars>>

\* readStoreMetadata(database)
ReadStoreMetadata ==
    /\ parsePc = "metadata"
    /\ IF dbFault = "StoreMetadata"
       THEN Finally("failed")
       ELSE parsePc' = "readRecords" /\ UNCHANGED <<handle, closeCalls, outcome>>
    /\ UNCHANGED <<dbFault, recordTable, groupTable, rawRecords, badRoots, records,
                 treeBuilds>>
    /\ UNCHANGED <<decodeVars, treeVars, extractVars, convertVars, projectVars,
                 findVars>>

\* buildRecords: `const rawRecords = readRecords(database)`
ReadRecords ==
    /\ parsePc = "readRecords"
    /\ IF dbFault \in {"StandardRecords", "StandardRecordGroups"}
       THEN Finally("failed") /\ UNCHANGED rawRecords
       ELSE /\ rawRecords' = readRecords(recordTable, groupTable)
            /\ parsePc' = "records"
            /\ UNCHANGED <<handle, closeCalls, outcome>>
    /\ UNCHANGED <<dbFault, recordTable, groupTable, badRoots, records, treeBuilds>>
    /\ UNCHANGED <<decodeVars, treeVars, extractVars, convertVars, projectVars,
                 findVars>>

\* One turn of the loop of buildRecords in which a failing record ends the
\* loop and parse returns the records built before it.
BuildRecordReturnsPartial ==
    /\ parsePc = "records"
    /\ Len(records) < Len(rawRecords)
    /\ LET raw == rawRecords[Len(records) + 1]
           treeThrows == \/ dbFault \in {"RecordParameterTypes", "RecordParameterTreeNodes"}
                         \/ raw.rootParameterTypeId \in badRoots
           dataThrows == dbFault = "RecordParameterData"
       IN  /\ treeBuilds' = treeBuilds + 1
           /\ IF treeThrows \/ dataThrows
              THEN Finally("returned") /\ UNCHANGED records
              ELSE /\ records' = Append(records, RecordOf(raw))
                   /\ UNCHANGED <<parsePc, handle, closeCalls, outcome>>
    /\ UNCHANGED <<dbFault, recordTable, groupTable, rawRecords, badRoots>>
    /\ UNCHANGED <<decodeVars, treeVars, extractVars, convertVars, projectVars,
                 findVars>>

\* buildRecords: one turn of `for (const raw of rawRecords)`:
\* buildParameterTree, readParameterData, records.push.
BuildRecord ==
    /\ parsePc = "records"
    /\ Len(records) < Len(rawRecords)
    /\ LET raw == rawRecords[Len(records) + 1]
           treeThrows == \/ dbFault \in {"RecordParameterTypes", "RecordParameterTreeNodes"}
                         \/ raw.rootParameterTypeId \in badRoots
           dataThrows == dbFault = "RecordParameterData"
       IN  /\ treeBuilds' = treeBuilds + 1
           /\ IF treeThrows \/ dataThrows
              THEN Finally("failed") /\ UNCHANGED records
              ELSE /\ records' = Append(records, RecordOf(raw))
                   /\ UNCHANGED <<parsePc, handle, closeCalls, outcome>>
    /\ UNCHANGED <<dbFault, recordTable, groupTable, rawRecords, badRoots>>
    /\ UNCHANGED <<decodeVars, treeVars, extractVars, convertVars, projectVars,
                 findVars>>

\* `return { schemaVersion, metadata, records }`
ParseReturn ==
    /\ parsePc = "records"
    /\ Len(records) = Len(rawRecords)
    /\ Finally("returned")
    /\ UNCHANGED <<dbFault, recordTable, groupTable, rawRecords, badRoots, records,
                 treeBuilds>>
    /\ UNCHANGED <<decodeVars, treeVars, extractVars, convertVars, projectVars,
                 findVars>>

NextParse ==
    \/ OpenInitModule \/ OpenNewDB \/ OpenDeserialize
    \/ ReadSchemaVersion \/ ReadStoreMetadata \/ ReadRecords
    \/ BuildRecord \/ ParseReturn

SpecParse == InitParse /\ [][NextParse]_vars

\* C3: in every execution of parse that created the database handle, close()
\* has been called exactly once when parse exits, whether it returns, faults
\* while reading, or faults in openDatabase after the handle was created.
C3_CloseExactlyOnce ==
    (outcome # "running" /\ handle # "none") => closeCalls = 1

\* A step of parse fails for the k-th record: one of the tables read for a
\* record is missing, or buildParameterTree throws for its root type (unknown
\* parameter type id, no root node).
RecordFails(k) ==
    \/ dbFault \in {"RecordParameterTypes", "RecordParameterTreeNodes",
                    "RecordParameterData"}
    \/ rawRecords[k].rootParameterTypeId \in badRoots

\* C14: when a step of parse fails for any record, parse as a whole fails: it
\* never returns a ZmesFile, neither the whole one nor one of the records built
\* before the failing record.
C14_FailingRecordFailsParse ==
    (parsePc = "done" /\ \E k \in DOMAIN rawRecords : RecordFails(k))
        => outcome = "failed"

\* C14 witness: parse has ended at the second record, whose root type has no
\* tree, after the first record was built; it failed.
C14_Witness ==
    /\ parsePc = "done" /\ outcome = "failed" /\ dbFault = "none"
    /\ Len(rawRecords) = 2 /\ Len(records) = 1
    /\ rawRecords[1].rootParameterTypeId \notin badRoots
    /\ rawRecords[2].rootParameterTypeId \in badRoots

\* C18: within one parse the tree of a root type is built at most once: the
\* number of tree constructions never exceeds the number of distinct
\* rootParameterTypeId values of the records, and equals it when parse returns.
C18_TreeBuiltOncePerRootType ==
    /\ treeBuilds <= Cardinality({ rawRecords[k].rootParameterTypeId
                                       : k \in DOMAIN rawRecords })
    /\ outcome = "returned"
          => treeBuilds = Cardinality({ rawRecords[k].rootParameterTypeId
                                       : k \in DOMAIN rawRecords })

\* C23: parse returns exactly one Record for every row of StandardRecords, in
\* ascending id order, each with the id, guid and timestamps of its row and the
\* id and guid of the row's group, and with group.name iff the group's
\* GivenName is not NULL; no row of StandardRecords is left out.
C23_OneRecordPerRow ==
    outcome = "returned" =>
        /\ Len(records) = Cardinality(recordTable)
        /\ \A i, j \in DOMAIN records : i < j => records[i].id < records[j].id
        /\ \A r \in recordTable : \E i \in DOMAIN records :
              /\ records[i].id = r.Id /\ records[i].guid = r.Guid
              /\ records[i].createdDateTime = r.CreatedDateTime
              /\ records[i].modifiedDateTime = r.ModifiedDateTime
              /\ records[i].group.id = r.GroupId
              /\ \A g \in groupTable : g.Id = r.GroupId =>
                    /\ records[i].group.guid = g.Guid
                    /\ ("name" \in DOMAIN records[i].group) = (g.GivenName # NULL)
                    /\ g.GivenName # NULL => records[i].group.name = g.GivenName[1]

(***************************************************************************)
(* readParameterTree.ts: buildParameterTree(database, rootParameterTypeId) *)
(***************************************************************************)
\* Ids of parameter types that tree-node rows refer to.
TypeIds == {1, 2}

\* A row of RecordParameterTreeNodes.
NodeRow(i, t, p, s, r) ==
    [id |-> i, parameterTypeId |-> t, parentNodeId |-> p, siblingIndex |-> s,
     rootParameterTypeId |-> r]

Range(q) == { q[k] : k \in DOMAIN q }

\* SELECT ... FROM RecordParameterTreeNodes WHERE RootParameterTypeId = ?
\* ORDER BY SiblingIndex: the rows of the root type in an order of ascending
\* SiblingIndex. SQL leaves the order of rows with equal SiblingIndex open, so
\* every such order is a possible result.
SelectTreeNodes(table, rootParameterTypeId) ==
    LET matching == { k \in DOMAIN table :
                        table[k].rootParameterTypeId = rootParameterTypeId }
        n == Cardinality(matching)
    IN  { [k \in 1..n |-> table[f[k]]] :
            f \in { g \in [1..n -> matching] :
                      /\ \A a, b \in 1..n : a # b => g[a] # g[b]
                      /\ \A a, b \in 1..n :
                            a < b => table[g[a]].siblingIndex <= table[g[b]].siblingIndex } }

\* The comparator with its operands swapped.
CompareDescending(a, b) == b.siblingIndex - a.siblingIndex

\* The comparator of sortChildren: (a, b) => a.siblingIndex - b.siblingIndex
CompareSiblings(a, b) == a.siblingIndex - b.siblingIndex

\* Array.prototype.toSorted is a stable sort: x goes behind every element that
\* does not compare greater than it.
RECURSIVE InsertSorted(_, _, _)
InsertSorted(nodes, sorted, x) ==
    IF sorted = <<>> THEN <<x>>
    ELSE IF CompareSiblings(nodes[Head(sorted)], nodes[x]) <= 0
         THEN <<Head(sorted)>> \o InsertSorted(nodes, Tail(sorted), x)
         ELSE <<x>> \o sorted

RECURSIVE ToSorted(_, _)
ToSorted(nodes, ids) ==
    IF ids = <<>> THEN <<>>
    ELSE InsertSorted(nodes, ToSorted(nodes, SubSeq(ids, 1, Len(ids) - 1)),
                      ids[Len(ids)])

\* sortChildren(node): sorts node.children, then each child in turn. `nodes`
\* maps a node id to the TreeNode object; children hold ids.
RECURSIVE sortChildren(_, _)
RECURSIVE SortEach(_, _)
sortChildren(nodes, id) ==
    LET sorted == ToSorted(nodes, nodes[id].children)
    IN  SortEach([nodes EXCEPT ![id].children = sorted], sorted)

SortEach(nodes, ids) ==
    IF ids = <<>> THEN nodes
    ELSE SortEach(sortChildren(nodes, Head(ids)), Tail(ids))

\* The first row, in load order, whose parameterTypeId is not a key of
\* parameterTypes; 0 when every row resolves.
RECURSIVE FirstUnknown(_, _, _)
FirstUnknown(parameterTypes, rows, k) ==
    IF k > Len(rows) THEN 0
    ELSE IF rows[k].parameterTypeId \notin parameterTypes THEN k
    ELSE FirstUnknown(parameterTypes, rows, k + 1)

\* nodeMap once every row is set: id -> {...rawNode, parameterType, children: []}
NodeMap(rows) ==
    [i \in { r.id : r \in Range(rows) } |->
        LET r == CHOOSE x \in Range(rows) : x.id = i
        IN  [id |-> r.id, parameterTypeId |-> r.parameterTypeId,
             parentNodeId |-> r.parentNodeId, siblingIndex |-> r.siblingIndex,
             parameterType |-> r.parameterTypeId, children |-> <<>>]]

\* The linking loop taking a node whose parent is not loaded as a root too.
RECURSIVE LinkNodesOrphanRoot(_, _, _)
LinkNodesOrphanRoot(rows, k, st) ==
    IF k > Len(rows) THEN st
    ELSE LET node == rows[k] IN
         LinkNodesOrphanRoot(rows, k + 1,
            IF node.parentNodeId = NULL
               \/ node.parentNodeId[1] \notin DOMAIN st.nodes
            THEN [st EXCEPT !.root = Some(node.id)]
            ELSE [st EXCEPT !.nodes[node.parentNodeId[1]].children =
                                Append(@, node.id)])

\* The linking loop with a second `parent.children.push(node)`.
RECURSIVE LinkNodesPushesTwice(_, _, _)
LinkNodesPushesTwice(rows, k, st) ==
    IF k > Len(rows) THEN st
    ELSE LET node == rows[k] IN
         LinkNodesPushesTwice(rows, k + 1,
            IF node.parentNodeId = NULL
            THEN [st EXCEPT !.root = Some(node.id)]
            ELSE IF node.parentNodeId[1] \in DOMAIN st.nodes
                 THEN [st EXCEPT !.nodes[node.parentNodeId[1]].children =
                                     Append(Append(@, node.id), node.id)]
                 ELSE st)

\* `for (const node of nodeMap.values())` from the k-th node on: st.root is
\* the root variable (NULL while undefined), st.nodes the node objects.
RECURSIVE LinkNodes(_, _, _)
LinkNodes(rows, k, st) ==
    IF k > Len(rows) THEN st
    ELSE LET node == rows[k] IN
         LinkNodes(rows, k + 1,
            IF node.parentNodeId = NULL
            THEN [st EXCEPT !.root = Some(node.id)]
            ELSE IF node.parentNodeId[1] \in DOMAIN st.nodes
                 THEN [st EXCEPT !.nodes[node.parentNodeId[1]].children =
                                     Append(@, node.id)]
                 ELSE st)

\* Unknown type ids are skipped instead of raising.
buildParameterTreeSkipUnknown(parameterTypes, rows) ==
    LET known == SelectSeq(rows, LAMBDA r : r.parameterTypeId \in parameterTypes)
        linked == LinkNodes(known, 1, [root |-> NULL, nodes |-> NodeMap(known)])
    IN  IF linked.root = NULL
        THEN [threw |-> "NoRoot", root |-> NULL, nodes |-> <<>>]
        ELSE [threw |-> "none", root |-> linked.root,
              nodes |-> sortChildren(linked.nodes, linked.root[1])]

\* buildParameterTree once the rows are loaded: `threw` names the Error
\* raised ("none" when the root is returned), `root` is the id of the
\* returned TreeNode and `nodes` the node objects it leads to.
buildParameterTree(parameterTypes, rows) ==
    LET bad == FirstUnknown(parameterTypes, rows, 1)
        linked == LinkNodes(rows, 1, [root |-> NULL, nodes |-> NodeMap(rows)])
    IN  IF bad # 0
        THEN [threw |-> "UnknownType", root |-> NULL, nodes |-> <<>>]
        ELSE IF linked.root = NULL
        THEN [threw |-> "NoRoot", root |-> NULL, nodes |-> <<>>]
        ELSE [threw |-> "none", root |-> linked.root,
              nodes |-> sortChildren(linked.nodes, linked.root[1])]

(***************************************************************************)
(* SpecTree: a database's tables, then buildParameterTree on them          *)
(***************************************************************************)
ParentIds == {NULL} \cup { Some(i) : i \in 1..MaxTableWeight }

SiblingIndexes == {0, 1}

\* A row that is of the second parameter type or of the second root type
\* weighs 2, any other row 1.
RowWeight(r) ==
    IF r.parameterTypeId # 1 \/ r.rootParameterTypeId # 1 THEN 2 ELSE 1

\* The rows a table of weight at most w can take as its row with id i.
RowsWithId(i, w) ==
    { r \in { NodeRow(i, t, p, x, o) : t \in TypeIds, p \in ParentIds,
                                       x \in SiblingIndexes, o \in RootTypeIds } :
        RowWeight(r) <= w }

\* The tables whose rows have ids i, i + 1, ... in storage order and weigh at
\* most w together.
RECURSIVE TablesFrom(_, _)
TablesFrom(i, w) ==
    { <<>> } \cup
    UNION { { <<r>> \o t : t \in TablesFrom(i + 1, w - RowWeight(r)) }
            : r \in RowsWithId(i, w) }

InitTree ==
    /\ typeTable \in { {1}, TypeIds }
    /\ nodeTable \in TablesFrom(1, MaxTableWeight)
    /\ loadedRows = <<>> /\ treeBuilt = FALSE /\ treeResult = UNDEFINED
    /\ IdleDecode /\ IdleParse /\ IdleExtract /\ IdleConvert /\ IdleProject
    /\ IdleFind

\* buildParameterTree(database, rootParameterTypeId)
BuildTree ==
    /\ ~treeBuilt
    /\ \E rootParameterTypeId \in RootTypeIds :
         \E rows \in SelectTreeNodes(nodeTable, rootParameterTypeId) :
            /\ loadedRows' = rows
            /\ treeResult' = buildParameterTree(typeTable, rows)
    /\ treeBuilt' = TRUE
    /\ UNCHANGED <<typeTable, nodeTable>>
    /\ UNCHANGED <<decodeVars, parseVars, extractVars, convertVars, projectVars,
                 findVars>>

NextTree == BuildTree

SpecTree == InitTree /\ [][NextTree]_vars

LoadedIds == { r.id : r \in Range(loadedRows) }

LoadedRow(i) == CHOOSE r \in Range(loadedRows) : r.id = i

\* Whether following parentNodeId from node i for at most n steps ends at a
\* loaded row with a null parent.
RECURSIVE ReachesRoot(_, _)
ReachesRoot(i, n) ==
    /\ i \in LoadedIds
    /\ \/ LoadedRow(i).parentNodeId = NULL
       \/ n > 0 /\ ReachesRoot(LoadedRow(i).parentNodeId[1], n - 1)

\* The loaded rows form a single connected tree rooted at one null-parent node.
SingleConnectedTree ==
    /\ Cardinality({ i \in LoadedIds : LoadedRow(i).parentNodeId = NULL }) = 1
    /\ \A i \in LoadedIds : ReachesRoot(i, Len(loadedRows))

\* The siblingIndex of each child of node i of the returned tree, in order.
ChildIndexes(i) ==
    [k \in DOMAIN treeResult.nodes[i].children |->
        treeResult.nodes[treeResult.nodes[i].children[k]].siblingIndex]

\* The children of node i are exactly the loaded rows whose parent is i, once.
ChildrenAreTheRowsOf(i) ==
    LET c == treeResult.nodes[i].children IN
    /\ Range(c) = { j \in LoadedIds : LoadedRow(j).parentNodeId = Some(i) }
    /\ \A a, b \in DOMAIN c : a # b => c[a] # c[b]

\* C4 as stated: for rows forming a single connected tree, the children of
\* every node of the returned tree are in strictly ascending siblingIndex
\* order.
C4_ChildrenStrictlyAscending ==
    (treeBuilt /\ treeResult.threw = "none" /\ SingleConnectedTree)
        => \A i \in LoadedIds :
              \A a, b \in DOMAIN ChildIndexes(i) :
                  a < b => ChildIndexes(i)[a] < ChildIndexes(i)[b]

\* C4 amended: for rows forming a single connected tree, the children of every
\* node of the returned tree, at every depth, are the rows whose parent it is,
\* in ascending siblingIndex order: never descending, and strictly ascending
\* wherever the siblings' indexes differ from one another.
C4_ChildrenAscending ==
    (treeBuilt /\ treeResult.threw = "none" /\ SingleConnectedTree)
        => \A i \in LoadedIds :
              /\ ChildrenAreTheRowsOf(i)
              /\ \A a, b \in DOMAIN ChildIndexes(i) :
                    a < b => ChildIndexes(i)[a] <= ChildIndexes(i)[b]
              /\ (\A a, b \in DOMAIN ChildIndexes(i) :
                        a # b => ChildIndexes(i)[a] # ChildIndexes(i)[b])
                    => \A a, b \in DOMAIN ChildIndexes(i) :
                          a < b => ChildIndexes(i)[a] < ChildIndexes(i)[b]

\* C4 witness: a tree was returned for a single connected tree in which the
\* root has two children of different siblingIndex, the higher one stored
\* first, and one of them has a child of its own.
C4_Witness ==
    /\ treeBuilt /\ treeResult.threw = "none" /\ SingleConnectedTree
    /\ Len(loadedRows) = 4
    /\ \E i, j, k \in LoadedIds :
          /\ treeResult.root = Some(i)
          /\ treeResult.nodes[i].children = <<j, k>>
          /\ k < j
          /\ treeResult.nodes[j].siblingIndex < treeResult.nodes[k].siblingIndex
          /\ treeResult.nodes[j].children # <<>>

\* C5: buildParameterTree fails with an error and returns no tree whenever a
\* row loaded for the root type has a parameterTypeId that is not in the type
\* registry.
C5_UnknownTypeFails ==
    (treeBuilt /\ \E r \in Range(loadedRows) : r.parameterTypeId \notin typeTable)
        => (treeResult.threw # "none" /\ treeResult.root = NULL)

\* C5 witness: the loaded rows hold a root and a child of known type and one
\* more row of an unknown type, and buildParameterTree has run on them.
C5_Witness ==
    /\ treeBuilt /\ Len(loadedRows) = 3
    /\ Cardinality({ r \in Range(loadedRows) : r.parameterTypeId \notin typeTable }) = 1
    /\ \E r \in Range(loadedRows) :
          r.parentNodeId = NULL /\ r.parameterTypeId \in typeTable
    /\ treeResult.threw = "UnknownType"

\* C6: buildParameterTree fails with an error whenever no row loaded for the
\* root type has a null parentNodeId, be it that no row was loaded or that the
\* rows' parents form a cycle.
C6_NoRootFails ==
    (treeBuilt /\ \A r \in Range(loadedRows) : r.parentNodeId # NULL)
        => (treeResult.threw # "none" /\ treeResult.root = NULL)

\* C6 witness: buildParameterTree has run on two rows of known type that are
\* each other's parent, and raised the missing-root error.
C6_Witness ==
    /\ treeBuilt /\ Len(loadedRows) = 2
    /\ \A r \in Range(loadedRows) : r.parameterTypeId \in typeTable
    /\ \A r \in Range(loadedRows) :
          r.parentNodeId # NULL /\ r.parentNodeId # Some(r.id)
              /\ r.parentNodeId[1] \in LoadedIds
    /\ treeResult.threw = "NoRoot"

\* The positions in loadedRows of the rows with a null parentNodeId.
NullParentPositions ==
    { k \in DOMAIN loadedRows : loadedRows[k].parentNodeId = NULL }

\* C16: when several rows loaded for the root type have a null parentNodeId
\* (and every row's type is known), buildParameterTree raises no error and
\* returns as root the first such row in load order.
C16_FirstNullParentIsRoot ==
    (treeBuilt /\ Cardinality(NullParentPositions) >= 2
            /\ \A r \in Range(loadedRows) : r.parameterTypeId \in typeTable)
        => /\ treeResult.threw = "none"
           /\ treeResult.root =
                Some(loadedRows[CHOOSE k \in NullParentPositions :
                                   \A j \in NullParentPositions : k <= j].id)

\* C17: after buildParameterTree returns, every loaded row with a non-null
\* parentNodeId is a child, once, of the loaded node of that id: no row whose
\* parentNodeId matches no loaded node is left out of the tree.
C17_EveryParentResolves ==
    (treeBuilt /\ treeResult.threw = "none")
        => \A r \in Range(loadedRows) :
              r.parentNodeId # NULL
                  => /\ r.parentNodeId[1] \in LoadedIds
                     /\ Cardinality({ k \in DOMAIN treeResult.nodes[r.parentNodeId[1]].children :
                            treeResult.nodes[r.parentNodeId[1]].children[k] = r.id }) = 1

(***************************************************************************)
(* readParameterData.ts: extractValue(dataType, row)                       *)
(***************************************************************************)
DATA_TYPE_NONE == 0
DATA_TYPE_INT32_SINGLE == 1
DATA_TYPE_INT32 == 2
DATA_TYPE_DOUBLE == 4
DATA_TYPE_SINGLE == 5
DATA_TYPE_BOOLEAN == 6
DATA_TYPE_INT64_SINGLE == 7
DATA_TYPE_INT64 == 9
DATA_TYPE_GUID == 16
DATA_TYPE_TEXT == 17
DATA_TYPE_DICTIONARY_KEYS == 32
DATA_TYPE_DICTIONARY == 36
DATA_TYPE_GUID_LIST == 42
DATA_TYPE_DATE_TIME == 48
DATA_TYPE_DURATION == 50
DATA_TYPE_BLOB_ARRAY == 70

\* A JavaScript value of type boolean | number | string | Float64Array |
\* undefined, tagged with its type.
Undefined == [t |-> "undefined"]
Bool(b) == [t |-> "boolean", v |-> b]
Num(n) == [t |-> "number", v |-> n]
Str(x) == [t |-> "string", v |-> x]
Float64Array(data) == [t |-> "Float64Array", v |-> data]
\* An exception leaving the function instead of a value.
Thrown == [t |-> "throw"]

\* `column || undefined`: a zero column gives no value.
NumOrUndefinedIfFalsy(column) ==
    IF column = NULL \/ column[1] = 0 THEN Undefined ELSE Num(column[1])

\* `column ?? undefined` for a numeric column
NumOrUndefined(column) == IF column = NULL THEN Undefined ELSE Num(column[1])

\* The case label group of the switch that a data type code falls under.
CaseOf(dataType) ==
    CASE dataType \in {DATA_TYPE_NONE, DATA_TYPE_DICTIONARY} -> "none"
      [] dataType \in {DATA_TYPE_INT32_SINGLE, DATA_TYPE_INT32} -> "int32"
      [] dataType \in {DATA_TYPE_DOUBLE, DATA_TYPE_SINGLE, DATA_TYPE_DURATION} ->
            "floating"
      [] dataType = DATA_TYPE_BOOLEAN -> "boolean"
      [] dataType = DATA_TYPE_INT64_SINGLE -> "int64single"
      [] dataType = DATA_TYPE_INT64 -> "int64"
      [] dataType \in {DATA_TYPE_GUID, DATA_TYPE_TEXT, DATA_TYPE_DICTIONARY_KEYS,
                       DATA_TYPE_GUID_LIST, DATA_TYPE_DATE_TIME} -> "text"
      [] dataType = DATA_TYPE_BLOB_ARRAY -> "blob"
      [] OTHER -> "default"

\* The floating case reading `row.dataDouble ?? undefined`.
FloatingValueNoFallback(row) == NumOrUndefined(row.dataDouble)

\* return row.dataDouble ?? row.dataSingle ?? undefined
FloatingValue(row) ==
    IF row.dataDouble # NULL THEN Num(row.dataDouble[1])
    ELSE NumOrUndefined(row.dataSingle)

\* The no-value case also reading the text column.
NoValueCaseReadsText(row) ==
    IF row.dataText # NULL THEN Str(row.dataText[1]) ELSE Undefined

\* case DATA_TYPE_NONE: case DATA_TYPE_DICTIONARY: return undefined
NoValueCase(row) == Undefined

\* The blob case testing `row.dataBlob?.length`: an empty blob gives no value.
BlobValueEmptyIsAbsent(row) ==
    IF row.dataBlob # NULL /\ Len(row.dataBlob[1]) > 0
    THEN LET r == decodeBlob(row.dataBlob[1]) IN
         IF r.threw THEN Thrown ELSE Float64Array(r.data)
    ELSE Undefined

\* case DATA_TYPE_BLOB_ARRAY: if (row.dataBlob) return decodeBlob(row.dataBlob);
\* return undefined. A Uint8Array is truthy whatever its length.
BlobValue(row) ==
    IF row.dataBlob # NULL
    THEN LET r == decodeBlob(row.dataBlob[1]) IN
         IF r.threw THEN Thrown ELSE Float64Array(r.data)
    ELSE Undefined

\* The default case raising an error for the unlisted code.
DefaultCaseThrows(row) == Thrown

\* default: return undefined
DefaultCase(row) == Undefined

\* extractValue(dataType, row): the switch over dataType.
extractValue(dataType, row) ==
    CASE CaseOf(dataType) = "none" -> NoValueCase(row)
      [] CaseOf(dataType) = "int32" -> NumOrUndefined(row.dataInt32)
      [] CaseOf(dataType) = "floating" -> FloatingValue(row)
      [] CaseOf(dataType) = "boolean" ->
            IF row.dataBoolean # NULL THEN Bool(row.dataBoolean[1] # 0)
            ELSE Undefined
      [] CaseOf(dataType) = "int64single" ->
            IF row.dataInt64 # NULL THEN Num(row.dataInt64[1])
            ELSE NumOrUndefined(row.dataInt32)
      [] CaseOf(dataType) = "int64" -> NumOrUndefined(row.dataInt64)
      [] CaseOf(dataType) = "text" ->
            IF row.dataText # NULL THEN Str(row.dataText[1]) ELSE Undefined
      [] CaseOf(dataType) = "blob" -> BlobValue(row)
      [] OTHER -> DefaultCase(row)

(***************************************************************************)
(* SpecExtract: extractValue on every data type code and raw row           *)
(***************************************************************************)
RecognizedDataTypes ==
    { DATA_TYPE_NONE, DATA_TYPE_INT32_SINGLE, DATA_TYPE_INT32, DATA_TYPE_DOUBLE,
      DATA_TYPE_SINGLE, DATA_TYPE_BOOLEAN, DATA_TYPE_INT64_SINGLE,
      DATA_TYPE_INT64, DATA_TYPE_GUID, DATA_TYPE_TEXT,
      DATA_TYPE_DICTIONARY_KEYS, DATA_TYPE_DICTIONARY, DATA_TYPE_GUID_LIST,
      DATA_TYPE_DATE_TIME, DATA_TYPE_DURATION, DATA_TYPE_BLOB_ARRAY }

\* Codes no case of the switch names.
OtherDataTypes == {3, 99}

\* A blob of one entry, the double 42.5.
OneEntryBlob == ENTRY_MARKER \o SetFloat64LE(Float64(0, 1028, 344064, 0, 0))

\* Each column is null, holds a zero or empty value, or holds another value;
\* the non-zero numbers differ from column to column. The blob column can
\* also hold a blob without a marker and a marker followed by three bytes.
RawDataRows ==
    [ dataBlob    : {NULL, Some(<<>>), Some(OneEntryBlob), Some(MarkerPrefix),
                     Some(ENTRY_MARKER \o <<0, 0, 0>>)},
      dataBoolean : {NULL, Some(0), Some(1)},
      dataDouble  : {NULL, Some(0), Some(25)},
      dataInt32   : {NULL, Some(0), Some(32)},
      dataInt64   : {NULL, Some(0), Some(64)},
      dataSingle  : {NULL, Some(0), Some(173)},
      dataText    : {NULL, Some(""), Some("GoodData")} ]

InitExtract ==
    /\ exDataType \in RecognizedDataTypes \cup OtherDataTypes
    /\ exRow \in RawDataRows
    /\ exDone = FALSE /\ exValue = UNDEFINED
    /\ IdleDecode /\ IdleParse /\ IdleTree /\ IdleConvert /\ IdleProject
    /\ IdleFind

\* extractValue(node.parameterType.dataType, dataRow)
ExtractValue ==
    /\ ~exDone
    /\ exDone' = TRUE
    /\ exValue' = extractValue(exDataType, exRow)
    /\ UNCHANGED <<exDataType, exRow>>
    /\ UNCHANGED <<decodeVars, parseVars, treeVars, convertVars, projectVars,
                 findVars>>

NextExtract == ExtractValue

SpecExtract == InitExtract /\ [][NextExtract]_vars

\* C9: for a data type code of double, single or duration, a row with a null
\* double column and a non-null single column yields the single-column value,
\* never "no value"; a row with a non-null double column, 0 included, yields
\* the double-column value.
C9_FloatingFallback ==
    (exDone /\ exDataType \in {DATA_TYPE_DOUBLE, DATA_TYPE_SINGLE, DATA_TYPE_DURATION})
        => /\ (exRow.dataDouble = NULL /\ exRow.dataSingle # NULL)
                => exValue = Num(exRow.dataSingle[1])
           /\ exRow.dataDouble # NULL => exValue = Num(exRow.dataDouble[1])

\* C9 witness: extractValue has run for the single code on a row whose double
\* column is null and whose single column holds 173.
C9_Witness ==
    /\ exDone /\ exDataType = DATA_TYPE_SINGLE
    /\ exRow.dataDouble = NULL /\ exRow.dataSingle = Some(173)
    /\ exValue = Num(173)

\* C20: for the codes that select one column, extractValue returns the value
\* of that column: int32 for the codes 1 and 2, int64 for 9, int64 or else
\* int32 for 7, the boolean column as true iff nonzero for 6, the text column
\* unchanged for 16, 17, 32, 42 and 48. A null selected column gives no value;
\* 0 and the empty string are values.
C20_SelectedColumn ==
    exDone =>
        /\ exDataType \in {1, 2} =>
              exValue = IF exRow.dataInt32 = NULL THEN Undefined
                        ELSE Num(exRow.dataInt32[1])
        /\ exDataType = 9 =>
              exValue = IF exRow.dataInt64 = NULL THEN Undefined
                        ELSE Num(exRow.dataInt64[1])
        /\ exDataType = 7 =>
              exValue = IF exRow.dataInt64 # NULL THEN Num(exRow.dataInt64[1])
                        ELSE IF exRow.dataInt32 # NULL THEN Num(exRow.dataInt32[1])
                        ELSE Undefined
        /\ exDataType = 6 =>
              exValue = IF exRow.dataBoolean = NULL THEN Undefined
                        ELSE IF exRow.dataBoolean[1] = 0 THEN Bool(FALSE)
                        ELSE Bool(TRUE)
        /\ exDataType \in {16, 17, 32, 42, 48} =>
              exValue = IF exRow.dataText = NULL THEN Undefined
                        ELSE Str(exRow.dataText[1])

\* C20 witness: extractValue has run for code 7 on a row whose int64 column is
\* null and whose int32 column holds 0, and returned the number 0.
C20_Witness ==
    /\ exDone /\ exDataType = 7
    /\ exRow.dataInt64 = NULL /\ exRow.dataInt32 = Some(0)
    /\ exValue = Num(0)

\* C21: for the blob array code (70), a row without a blob gives no value, and
\* a row with a blob gives an array and no error: the empty array when the
\* blob is of length zero or has no marker, the decoder's result in general.
\* convertNode gives the Parameter a value iff extractValue returns one.
C21_BlobArrayValue ==
    (exDone /\ exDataType = 70) =>
        IF exRow.dataBlob = NULL THEN exValue = Undefined
        ELSE /\ exValue.t = "Float64Array"
             /\ ~ContainsMarker(exRow.dataBlob[1]) => exValue.v = <<>>
             /\ exRow.dataBlob[1] = OneEntryBlob
                   => exValue.v = <<Float64(0, 1028, 344064, 0, 0)>>

\* C21 witness: extractValue has run for code 70 on a row whose blob has
\* bytes but no marker, and returned the empty array.
C21_Witness ==
    /\ exDone /\ exDataType = 70
    /\ exRow.dataBlob = Some(MarkerPrefix)
    /\ exValue = Float64Array(<<>>)

(***************************************************************************)
(* readParameterData.ts: convertNode(node, dataMap)                        *)
(***************************************************************************)
\* A row of RecordParameterTypes as convertNode reads it.
ParameterType(name, u, code) == [friendlyName |-> name, urn |-> u, dataType |-> code]

\* `text ?? ''`
TextOrEmpty(text) == IF text = NULL THEN "" ELSE text[1]

\* convertNode that omits a node's children when the node carries no value.
RECURSIVE convertNodeDropsChildren(_, _, _)
convertNodeDropsChildren(nodes, id, dataMap) ==
    LET node == nodes[id]
        value == IF id \in DOMAIN dataMap
                 THEN extractValue(node.parameterType.dataType, dataMap[id])
                 ELSE Undefined
        children == [k \in DOMAIN node.children |->
                        convertNodeDropsChildren(nodes, node.children[k], dataMap)]
        named == [name |-> TextOrEmpty(node.parameterType.friendlyName),
                  urn |-> TextOrEmpty(node.parameterType.urn)]
        valued == IF value # Undefined THEN named @@ ("value" :> value) ELSE named
    IN  IF value = Thrown \/ \E k \in DOMAIN children : children[k] = Thrown
        THEN Thrown
        ELSE IF Len(node.children) > 0 /\ value # Undefined
             THEN valued @@ ("children" :> children)
             ELSE valued

\* convertNode(node, dataMap): the ZmesParameter of the node with id `id`; the
\* fields value and children exist only when the code assigns them. Thrown
\* when extractValue raised for the node or for a node below it.
RECURSIVE convertNode(_, _, _)
convertNode(nodes, id, dataMap) ==
    LET node == nodes[id]
        value == IF id \in DOMAIN dataMap
                 THEN extractValue(node.parameterType.dataType, dataMap[id])
                 ELSE Undefined
        children == [k \in DOMAIN node.children |->
                        convertNode(nodes, node.children[k], dataMap)]
        named == [name |-> TextOrEmpty(node.parameterType.friendlyName),
                  urn |-> TextOrEmpty(node.parameterType.urn)]
        valued == IF value # Undefined THEN named @@ ("value" :> value) ELSE named
    IN  IF value = Thrown \/ \E k \in DOMAIN children : children[k] = Thrown
        THEN Thrown
        ELSE IF Len(node.children) > 0
             THEN valued @@ ("children" :> children)
             ELSE valued

\* readParameterData once dataByNodeId is loaded: convertNode(rootNode, dataMap)
readParameterData(tree, dataMap) == convertNode(tree.nodes, tree.root, dataMap)

(***************************************************************************)
(* SpecConvert: a parameter tree and a record's rows, then                 *)
(* readParameterData on them                                               *)
(***************************************************************************)
\* The parameter types of the nodes: a nameless type without value, a
\* dictionary, a double, a blob array and a type of an unlisted code.
ConvertTypes ==
    { ParameterType(NULL, NULL, DATA_TYPE_NONE),
      ParameterType(Some("Sample Settings"), Some("urn:settings"), DATA_TYPE_DICTIONARY),
      ParameterType(Some("Temperature"), Some("urn:temperature"), DATA_TYPE_DOUBLE),
      ParameterType(Some("Sizes"), Some("urn:sizes"), DATA_TYPE_BLOB_ARRAY),
      ParameterType(Some("Later"), Some("urn:later"), 99) }

\* The row with every column null and the row with every column set.
AllNullRow ==
    [dataBlob |-> NULL, dataBoolean |-> NULL, dataDouble |-> NULL,
     dataInt32 |-> NULL, dataInt64 |-> NULL, dataSingle |-> NULL,
     dataText |-> NULL]

AllSetRow ==
    [dataBlob |-> Some(OneEntryBlob), dataBoolean |-> Some(1),
     dataDouble |-> Some(25), dataInt32 |-> Some(32), dataInt64 |-> Some(64),
     dataSingle |-> Some(173), dataText |-> Some("GoodData")]

\* What a record can hold for a node: no row (NULL) or one of the rows.
ConvertRows == {NULL, Some(AllNullRow), Some(AllSetRow)}

\* The trees of n nodes with ids 1..n: node 1 is the root and the parent of
\* every other node has a smaller id; children are listed in id order.
ParentVectors(n) == { p \in [2..n -> 1..n] : \A i \in 2..n : p[i] < i }

RECURSIVE IdsFrom(_, _, _)
IdsFrom(S, i, n) ==
    IF i > n THEN <<>>
    ELSE IF i \in S THEN <<i>> \o IdsFrom(S, i + 1, n) ELSE IdsFrom(S, i + 1, n)

TreeOf(n, parent, types) ==
    [root |-> 1,
     nodes |-> [i \in 1..n |->
        [id |-> i, parameterType |-> types[i],
         children |-> IdsFrom({ c \in 2..n : parent[c] = i }, 1, n)]]]

InitConvert ==
    /\ \E n \in 1..MaxTreeNodes :
          /\ \E parent \in ParentVectors(n), types \in [1..n -> ConvertTypes] :
                cvTree = TreeOf(n, parent, types)
          /\ \E rows \in [1..n -> ConvertRows] :
                cvData = [i \in { j \in 1..n : rows[j] # NULL } |-> rows[i][1]]
    /\ cvDone = FALSE /\ cvParam = UNDEFINED
    /\ IdleDecode /\ IdleParse /\ IdleTree /\ IdleExtract /\ IdleProject
    /\ IdleFind

\* readParameterData(database, sqlite3, recordId, rootNode)
ReadParameterData ==
    /\ ~cvDone
    /\ cvDone' = TRUE
    /\ cvParam' = readParameterData(cvTree, cvData)
    /\ UNCHANGED <<cvTree, cvData>>
    /\ UNCHANGED <<decodeVars, parseVars, treeVars, extractVars, projectVars,
                 findVars>>

NextConvert == ReadParameterData

SpecConvert == InitConvert /\ [][NextConvert]_vars

\* The parent of node i of cvTree, and i's position among its children.
ParentOf(i) == CHOOSE p \in DOMAIN cvTree.nodes :
                  \E k \in DOMAIN cvTree.nodes[p].children :
                      cvTree.nodes[p].children[k] = i

PositionOf(i) == CHOOSE k \in DOMAIN cvTree.nodes[ParentOf(i)].children :
                    cvTree.nodes[ParentOf(i)].children[k] = i

\* The path of child positions from the root to node i.
RECURSIVE PathOf(_)
PathOf(i) ==
    IF i = cvTree.root THEN <<>> ELSE Append(PathOf(ParentOf(i)), PositionOf(i))

\* Whether the path leads to a Parameter of p, and that Parameter.
RECURSIVE HasPath(_, _)
HasPath(p, path) ==
    \/ path = <<>>
    \/ /\ "children" \in DOMAIN p
       /\ Head(path) \in DOMAIN p.children
       /\ HasPath(p.children[Head(path)], Tail(path))

RECURSIVE AtPath(_, _)
AtPath(p, path) ==
    IF path = <<>> THEN p ELSE AtPath(p.children[Head(path)], Tail(path))

\* C10: a tree node that has a raw row and whose data type code is "no value"
\* (0) or "dictionary" (36) yields, at the node's place in the output, a
\* Parameter without a value field, with the name and urn of its parameter
\* type, and with its children when the node has children, whatever the row
\* holds.
C10_NoValueNodeKeepsNameAndChildren ==
    (cvDone /\ cvParam # Thrown)
        => \A i \in DOMAIN cvTree.nodes :
              (i \in DOMAIN cvData
                  /\ cvTree.nodes[i].parameterType.dataType
                        \in {DATA_TYPE_NONE, DATA_TYPE_DICTIONARY})
              => /\ HasPath(cvParam, PathOf(i))
                 /\ LET p == AtPath(cvParam, PathOf(i))
                        node == cvTree.nodes[i]
                    IN  /\ "value" \notin DOMAIN p
                        /\ p.name = TextOrEmpty(node.parameterType.friendlyName)
                        /\ p.urn = TextOrEmpty(node.parameterType.urn)
                        /\ ("children" \in DOMAIN p) = (node.children # <<>>)
                        /\ node.children # <<>>
                              => Len(p.children) = Len(node.children)

\* C10 witness: readParameterData has run on a tree whose root is a dictionary
\* with two children and a row that has every column set, one child being a
\* double with a value.
C10_Witness ==
    /\ cvDone /\ cvParam # Thrown
    /\ cvTree.nodes[1].parameterType.dataType = DATA_TYPE_DICTIONARY
    /\ 1 \in DOMAIN cvData /\ cvData[1] = AllSetRow
    /\ Len(cvTree.nodes[1].children) = 2
    /\ "children" \in DOMAIN cvParam
    /\ "value" \in DOMAIN cvParam.children[2]

\* C11: a node whose data type code is outside the recognized set yields no
\* value and no error whatever its row holds, and the conversion goes on:
\* readParameterData returns a tree in which the node and every other node of
\* the input tree has its Parameter.
C11_UnknownCodeOmitsValue ==
    (cvDone /\ \E i \in DOMAIN cvTree.nodes :
                  /\ i \in DOMAIN cvData
                  /\ cvTree.nodes[i].parameterType.dataType \notin RecognizedDataTypes)
        => /\ cvParam # Thrown
           /\ \A i \in DOMAIN cvTree.nodes :
                 /\ HasPath(cvParam, PathOf(i))
                 /\ (i \in DOMAIN cvData
                        /\ cvTree.nodes[i].parameterType.dataType
                              \notin RecognizedDataTypes)
                      => "value" \notin DOMAIN AtPath(cvParam, PathOf(i))

\* C11 witness: readParameterData has run on a root with two children that
\* both have a row with every column set: the first is of code 99 and comes
\* out without a value, the second is a double and comes out with its value.
C11_Witness ==
    /\ cvDone /\ cvParam # Thrown
    /\ Len(cvTree.nodes[1].children) = 2
    /\ cvTree.nodes[2].parameterType.dataType = 99
    /\ cvTree.nodes[3].parameterType.dataType = DATA_TYPE_DOUBLE
    /\ 2 \in DOMAIN cvData /\ cvData[2] = AllSetRow
    /\ 3 \in DOMAIN cvData /\ cvData[3] = AllSetRow
    /\ "value" \notin DOMAIN cvParam.children[1]
    /\ cvParam.children[2].value = Num(25)

\* Whether Parameter p mirrors the subtree of cvTree at node i: the name and
\* urn of the node's type, a children field iff the node has children, and
\* as many children as the node, each mirroring the child at its position.
RECURSIVE Mirrors(_, _)
Mirrors(p, i) ==
    LET node == cvTree.nodes[i] IN
    /\ p.name = TextOrEmpty(node.parameterType.friendlyName)
    /\ p.urn = TextOrEmpty(node.parameterType.urn)
    /\ DOMAIN p \subseteq {"name", "urn", "value", "children"}
    /\ ("children" \in DOMAIN p) = (Len(node.children) > 0)
    /\ "children" \in DOMAIN p =>
          /\ Len(p.children) = Len(node.children)
          /\ \A k \in DOMAIN node.children :
                Mirrors(p.children[k], node.children[k])

\* C19: readParameterData returns a Parameter tree isomorphic to the TreeNode
\* tree: one Parameter per node, children in the order of the node's
\* children, name and urn of the node's parameter type, a children field iff
\* the node has a child; a node with neither value nor children is there too.
C19_ParameterTreeIsomorphic ==
    (cvDone /\ cvParam # Thrown) => Mirrors(cvParam, cvTree.root)

\* C19 witness: readParameterData has run on a chain of three nodes without
\* rows: the Parameter of the root has one child, which has one child with
\* nothing but its name and urn.
C19_Witness ==
    /\ cvDone /\ cvParam # Thrown /\ cvData = <<>>
    /\ cvTree.nodes[1].children = <<2>> /\ cvTree.nodes[2].children = <<3>>
    /\ cvTree.nodes[2].parameterType # cvTree.nodes[3].parameterType
    /\ "value" \notin DOMAIN cvParam
    /\ Len(cvParam.children) = 1 /\ Len(cvParam.children[1].children) = 1
    /\ DOMAIN cvParam.children[1].children[1] = {"name", "urn"}

(***************************************************************************)
(* buildRecords: the tree buildParameterTree returned, handed to           *)
(* readParameterData                                                       *)
(***************************************************************************)
\* The node ids reached from the ids of S in at most n steps along `children`.
RECURSIVE ReachableWithin(_, _)
ReachableWithin(S, n) ==
    IF n = 0 THEN S
    ELSE ReachableWithin(
            S \cup UNION { Range(treeResult.nodes[i].children) : i \in S }, n - 1)

\* The nodes sortChildren and convertNode reach from the returned root.
ReachableNodes ==
    ReachableWithin({treeResult.root[1]}, Cardinality(DOMAIN treeResult.nodes))

\* The places, among the children of the reachable nodes, that hold node j.
IncomingEdges(j) ==
    { e \in UNION { { <<i, k>> : k \in DOMAIN treeResult.nodes[i].children }
                    : i \in ReachableNodes } :
        treeResult.nodes[e[1]].children[e[2]] = j }

\* The rootNode of readParameterData: the returned TreeNode objects, each with
\* the parameterType buildParameterTree looked up for it.
ReturnedTree ==
    [root |-> treeResult.root[1],
     nodes |-> [i \in DOMAIN treeResult.nodes |->
        [id |-> i,
         parameterType |-> ParameterType(Some("Type"), Some("urn:type"),
                                         DATA_TYPE_NONE),
         children |-> treeResult.nodes[i].children]]]

\* The number of ZmesParameter objects of a converted tree.
RECURSIVE CountParameters(_)
RECURSIVE CountAll(_)
CountParameters(parameter) ==
    1 + (IF "children" \in DOMAIN parameter THEN CountAll(parameter.children)
         ELSE 0)

CountAll(children) ==
    IF children = <<>> THEN 0
    ELSE CountParameters(Head(children)) + CountAll(Tail(children))

\* C25: for every set of tree-node rows with a null-parent row, rows whose
\* parentNodeId values form a cycle or name the row itself included,
\* buildParameterTree (sortChildren) and readParameterData (convertNode) end:
\* the returned root is in no node's children, every other node reached from
\* it is held by exactly one place of one node's children, so that no node
\* is reached along two paths and no cycle is reached, and convertNode makes
\* one ZmesParameter for each reached node.
C25_ReturnedTreeIsATree ==
    (treeBuilt /\ treeResult.threw = "none") =>
        /\ IncomingEdges(treeResult.root[1]) = {}
        /\ \A j \in ReachableNodes \ {treeResult.root[1]} :
              Cardinality(IncomingEdges(j)) = 1
        /\ CountParameters(readParameterData(ReturnedTree, <<>>))
              = Cardinality(ReachableNodes)

\* C25 witness: a tree was returned for rows of which two are each other's
\* parent, next to a null-parent row with a child.
C25_Witness ==
    /\ treeBuilt /\ treeResult.threw = "none"
    /\ Len(treeResult.nodes[treeResult.root[1]].children) = 1
    /\ \E a, b \in LoadedIds :
          /\ a # b
          /\ LoadedRow(a).parentNodeId = Some(b)
          /\ LoadedRow(b).parentNodeId = Some(a)
    /\ Cardinality(ReachableNodes) = 2

(***************************************************************************)
(* findParameter.ts                                                        *)
(***************************************************************************)
\* `parameter.children ?? []`
ChildrenOf(parameter) ==
    IF "children" \in DOMAIN parameter THEN parameter.children ELSE <<>>

\* `parameter?.value` of a search result: Undefined when nothing was found
\* or the Parameter has no value field.
ValueOf(found) ==
    IF found # NULL /\ "value" \in DOMAIN found[1] THEN found[1].value
    ELSE Undefined

RECURSIVE findParameterDeep(_, _)
RECURSIVE FindInChildren(_, _)

\* findParameter going on into the descendants of the children.
findParameterDescends(children, name) == FindInChildren(children, name)

\* findParameter(children, name): children.find(child => child.name === name),
\* as Some(child) or NULL for undefined.
RECURSIVE findParameter(_, _)
findParameter(children, name) ==
    IF children = <<>> THEN NULL
    ELSE IF Head(children).name = name THEN Some(Head(children))
    ELSE findParameter(Tail(children), name)

\* findParameterDeep looking at all the children of a node before it
\* descends into the first of them.
findParameterDeepChildrenFirst(parameter, name) ==
    IF parameter.name = name THEN Some(parameter)
    ELSE IF findParameter(ChildrenOf(parameter), name) # NULL
    THEN findParameter(ChildrenOf(parameter), name)
    ELSE FindInChildren(ChildrenOf(parameter), name)

\* findParameterDeep(parameter, name), as Some(node) or NULL for undefined.
findParameterDeep(parameter, name) ==
    IF parameter.name = name THEN Some(parameter)
    ELSE FindInChildren(ChildrenOf(parameter), name)

\* The loop `for (const child of parameter.children)` of findParameterDeep.
FindInChildren(children, name) ==
    IF children = <<>> THEN NULL
    ELSE LET found == findParameterDeep(Head(children), name) IN
         IF found # NULL THEN found ELSE FindInChildren(Tail(children), name)

(***************************************************************************)
(* toMeasurementXY.ts                                                      *)
(***************************************************************************)
VariableDescriptor(n, s, l, u, d) ==
    [parameterName |-> n, symbol |-> s, label |-> l, units |-> u, isDependent |-> d]

VARIABLE_DESCRIPTORS ==
    << VariableDescriptor("Sizes", "x", "Particle diameter", "nm", FALSE),
       VariableDescriptor("Particle Size Intensity Distribution", "y",
                          "Intensity", "%", TRUE),
       VariableDescriptor("Particle Size Volume Distribution (%)", "a",
                          "Volume", "%", TRUE),
       VariableDescriptor("Particle Size Number Distribution", "b",
                          "Number", "%", TRUE),
       VariableDescriptor("Molecular Weights", "c", "Molecular weight", "Da", TRUE),
       VariableDescriptor("Diffusion Coefficients", "d",
                          "Diffusion coefficient", "µm²/s", TRUE),
       VariableDescriptor("Relaxation Times", "e", "Relaxation time", "µs", TRUE),
       VariableDescriptor("Form Factor", "f", "Form factor", "", TRUE) >>

\* The `found` map of buildVariables: a variable for each descriptor whose
\* deep search result has a Float64Array value, keyed by symbol.
FoundVariables(parameters) ==
    LET hit(k) == ValueOf(findParameterDeep(parameters,
                                           VARIABLE_DESCRIPTORS[k].parameterName))
        ks == { k \in DOMAIN VARIABLE_DESCRIPTORS : hit(k).t = "Float64Array" }
    IN  [sym \in { VARIABLE_DESCRIPTORS[k].symbol : k \in ks } |->
            LET k == CHOOSE j \in ks : VARIABLE_DESCRIPTORS[j].symbol = sym
                descriptor == VARIABLE_DESCRIPTORS[k]
            IN  [symbol |-> descriptor.symbol, label |-> descriptor.label,
                 units |-> descriptor.units, data |-> hit(k).v,
                 isDependent |-> descriptor.isDependent]]

\* buildVariables returning undefined only when x is missing.
buildVariablesNeedsOnlyX(parameters) ==
    LET found == FoundVariables(parameters) IN
    IF "x" \notin DOMAIN found THEN NULL ELSE Some(found)

\* buildVariables(parameters): Some(variables), or NULL for undefined.
buildVariables(parameters) ==
    LET found == FoundVariables(parameters) IN
    IF "x" \notin DOMAIN found \/ "y" \notin DOMAIN found THEN NULL
    ELSE Some(found)

\* extractTitle(parameters)
extractTitle(parameters) ==
    LET sampleSettings == findParameter(ChildrenOf(parameters), "Sample Settings") IN
    IF sampleSettings = NULL THEN ""
    ELSE LET sampleName == ValueOf(findParameterDeep(sampleSettings[1], "Sample Name"))
         IN  IF sampleName.t = "string" THEN sampleName.v ELSE ""

MetaField(n, k) == [parameterName |-> n, metaKey |-> k]

\* topLevelFields of extractMeta, searched among the root's children
TopLevelFields ==
    { MetaField("Operator Name", "operatorName"),
      MetaField("Measurement Start Date And Time", "measurementStartDateTime"),
      MetaField("Measurement Completed Date And Time", "measurementCompletedDateTime"),
      MetaField("Repeat", "repeat"),
      MetaField("Number Of Repeats", "numberOfRepeats"),
      MetaField("Pause Between Repeats (s)", "pauseBetweenRepeats"),
      MetaField("Quality Indicator", "qualityIndicator"),
      MetaField("Result State", "resultState"),
      MetaField("Measurement Type", "measurementType") }

\* deepFields of extractMeta and the two dispersant fields, searched in the
\* whole tree
DeepFields ==
    { MetaField("Z-Average (nm)", "zAverage"),
      MetaField("Polydispersity Index (PI)", "polydispersityIndex"),
      MetaField("Derived Mean Count Rate (kcps)", "derivedMeanCountRate"),
      MetaField("Dispersant Viscosity (cP)", "dispersantViscosity"),
      MetaField("Dispersant RI", "dispersantRI") }

\* The two fields searched below 'Material Settings'
MaterialFields ==
    { MetaField("Material RI", "materialRI"),
      MetaField("Material Absorption", "materialAbsorption") }

\* The value extractMeta finds for a field, Undefined when it assigns none.
MetaValue(parameters, field) ==
    IF field \in TopLevelFields
    THEN ValueOf(findParameter(ChildrenOf(parameters), field.parameterName))
    ELSE IF field \in DeepFields
    THEN ValueOf(findParameterDeep(parameters, field.parameterName))
    ELSE LET materialSettings == findParameterDeep(parameters, "Material Settings")
         IN  IF materialSettings = NULL THEN Undefined
             ELSE ValueOf(findParameterDeep(materialSettings[1], field.parameterName))

\* extractMeta(parameters): the keys assigned and their values
extractMeta(parameters) ==
    LET fields == { f \in TopLevelFields \cup DeepFields \cup MaterialFields :
                      MetaValue(parameters, f) # Undefined }
    IN  [key \in { f.metaKey : f \in fields } |->
            MetaValue(parameters, CHOOSE f \in fields : f.metaKey = key)]

SettingsField(n, k) == [parameterName |-> n, settingsKey |-> k]

\* instrumentSettingsFields of extractSettings
InstrumentSettingsFields ==
    { SettingsField("Detector Angle (°)", "detectorAngle"),
      SettingsField("Run Duration (s)", "runDuration"),
      SettingsField("Number Of Runs", "numberOfRuns"),
      SettingsField("Temperature (°C)", "temperature"),
      SettingsField("Attenuator", "attenuator"),
      SettingsField("Attenuation Factor", "attenuationFactor"),
      SettingsField("Cuvette Position (mm)", "cuvettePosition"),
      SettingsField("Laser Wavelength (nm)", "laserWavelength") }

\* `parameter?.value !== undefined` in the place of the typeof test.
IsDefined(value) == value # Undefined

\* typeof parameter?.value === 'number'
TypeofNumber(value) == value.t = "number"

\* extractSettings(parameters)
extractSettings(parameters) ==
    LET softwareVersion == ValueOf(findParameter(ChildrenOf(parameters),
                                                 "Software Version"))
        instrumentSerialNumber ==
            ValueOf(findParameterDeep(parameters, "Instrument Serial Number"))
        software == IF softwareVersion.t = "string"
                    THEN [name |-> "ZS XPLORER", version |-> softwareVersion.v]
                    ELSE [name |-> "ZS XPLORER"]
        instrument ==
            IF instrumentSerialNumber.t = "string"
            THEN [manufacturer |-> "Malvern Panalytical", model |-> "Zetasizer",
                  serialNumber |-> instrumentSerialNumber.v, software |-> software]
            ELSE [manufacturer |-> "Malvern Panalytical", model |-> "Zetasizer",
                  software |-> software]
        numeric == { f \in InstrumentSettingsFields :
                       TypeofNumber(ValueOf(findParameterDeep(parameters,
                                                              f.parameterName))) }
    IN  [key \in {"instrument"} \cup { f.settingsKey : f \in numeric } |->
            IF key = "instrument" THEN instrument
            ELSE ValueOf(findParameterDeep(parameters,
                    (CHOOSE f \in numeric : f.settingsKey = key).parameterName)).v]

\* The MeasurementXY pushed for a record with variables.
MeasurementOf(record, variables) ==
    [id |-> record.guid,
     title |-> extractTitle(record.parameters),
     dataType |-> "Size measurement",
     meta |-> extractMeta(record.parameters),
     settings |-> extractSettings(record.parameters),
     variables |-> variables]

\* The loop of toMeasurementXY leaving at the first record without variables.
RECURSIVE ProjectUntilSkip(_, _)
ProjectUntilSkip(recs, done) ==
    IF recs = <<>> THEN done
    ELSE LET variables == buildVariables(Head(recs).parameters) IN
         IF variables = NULL THEN done
         ELSE ProjectUntilSkip(Tail(recs),
                  Append(done, MeasurementOf(Head(recs), variables[1])))

\* `for (const record of zmesFile.records)` of toMeasurementXY: `done` is the
\* measurements array so far.
RECURSIVE ProjectRecords(_, _)
ProjectRecords(recs, done) ==
    IF recs = <<>> THEN done
    ELSE LET variables == buildVariables(Head(recs).parameters) IN
         ProjectRecords(Tail(recs),
            IF variables = NULL THEN done
            ELSE Append(done, MeasurementOf(Head(recs), variables[1])))

\* toMeasurementXY(zmesFile)
toMeasurementXY(file) == ProjectRecords(file.records, <<>>)

(***************************************************************************)
(* SpecProject: a parsed ZmesFile, then toMeasurementXY on it              *)
(***************************************************************************)
\* The names of the nodes: the two required variables and a settings field.
ProjectNames ==
    { "Sizes", "Particle Size Intensity Distribution", "Temperature (°C)" }

\* A node has no value, a number or a decoded array.
ProjectValueKinds == { "undefined", "number", "Float64Array" }

ProjectValue(kind) ==
    CASE kind = "undefined" -> Undefined
      [] kind = "number" -> Num(25)
      [] kind = "Float64Array" -> Float64Array(<<Float64(0, 1023, 0, 0, 0)>>)
      [] kind = "string" -> Str("25.0")
      [] kind = "boolean" -> Bool(TRUE)

\* A ZmesParameter as convertNode builds it: value and children are fields
\* only when present.
Parameter(name, value, children) ==
    LET named == [name |-> name, urn |-> "urn:Com.Malvern.RecordParameter"]
        valued == IF value # Undefined THEN named @@ ("value" :> value) ELSE named
    IN  IF children # <<>> THEN valued @@ ("children" :> children) ELSE valued

\* The shapes of the sequences of Parameter trees that have n nodes together,
\* and of the trees of n nodes: a shape names a node's value by its kind.
RECURSIVE Forests(_)
RECURSIVE Trees(_)
Forests(n) ==
    IF n = 0 THEN { <<>> }
    ELSE UNION { { <<t>> \o f : t \in Trees(k), f \in Forests(n - k) } : k \in 1..n }

Trees(n) ==
    [name : ProjectNames, kind : ProjectValueKinds, children : Forests(n - 1)]

\* The Parameter tree of a shape.
RECURSIVE ParameterOf(_)
ParameterOf(shape) ==
    Parameter(shape.name, ProjectValue(shape.kind),
              [k \in DOMAIN shape.children |-> ParameterOf(shape.children[k])])

Guids == << "1c90a5c0-581d", "f14ead7b-bca1", "9d2c7e10-33aa", "5b1f0c44-7e02",
            "c0ffee00-1234", "deadbeef-5678" >>

\* The ZmesRecord with the i-th id and guid and the given parameter tree.
ZmesRecord(i, parameters) ==
    [id |-> i, guid |-> Guids[i],
     group |-> [id |-> 1, guid |-> "f14ead7b-bca1-4581"],
     createdDateTime |-> "2026-02-20 13:18:16", modifiedDateTime |-> "2026-02-20 13:18:16",
     parameters |-> parameters]

\* The ZmesFile whose records have the Parameter trees of the shapes.
ZmesFile(shapes) ==
    [schemaVersion |-> 3, metadata |-> <<>>,
     records |-> [i \in DOMAIN shapes |-> ZmesRecord(i, ParameterOf(shapes[i]))]]

InitProject ==
    /\ \E n \in 0..MaxFileNodes : \E shapes \in Forests(n) :
          zmesFile = ZmesFile(shapes)
    /\ projected = FALSE /\ measurements = <<>>
    /\ IdleDecode /\ IdleParse /\ IdleTree /\ IdleExtract /\ IdleConvert
    /\ IdleFind

\* toMeasurementXY with a loop that takes each record off the input array
\* (`records.shift()`) in the place of `for (const record of zmesFile.records)`.
ToMeasurementXYConsumesRecords ==
    /\ ~projected
    /\ projected' = TRUE
    /\ measurements' = toMeasurementXY(zmesFile)
    /\ zmesFile' = [zmesFile EXCEPT !.records = <<>>]
    /\ UNCHANGED <<decodeVars, parseVars, treeVars, extractVars, convertVars,
                 findVars>>

\* toMeasurementXY(zmesFile)
ToMeasurementXY ==
    /\ ~projected
    /\ projected' = TRUE
    /\ measurements' = toMeasurementXY(zmesFile)
    /\ UNCHANGED zmesFile
    /\ UNCHANGED <<decodeVars, parseVars, treeVars, extractVars, convertVars,
                 findVars>>

NextProject == ToMeasurementXY

SpecProject == InitProject /\ [][NextProject]_vars

\* The nodes of a Parameter tree in pre-order: a node, then its children's
\* subtrees from left to right.
RECURSIVE PreOrder(_)
RECURSIVE PreOrderAll(_)
PreOrder(parameter) == <<parameter>> \o PreOrderAll(ChildrenOf(parameter))

PreOrderAll(children) ==
    IF children = <<>> THEN <<>>
    ELSE PreOrder(Head(children)) \o PreOrderAll(Tail(children))

\* The first node in pre-order named `name` exists and has an array value.
FirstMatchIsArray(parameters, name) ==
    LET nodes == PreOrder(parameters)
        hits == { k \in DOMAIN nodes : nodes[k].name = name }
    IN  /\ hits # {}
        /\ LET first == nodes[CHOOSE k \in hits : \A j \in hits : k <= j] IN
           "value" \in DOMAIN first /\ first.value.t = "Float64Array"

\* The record has array-valued matches for x and for y.
HasXAndY(record) ==
    /\ FirstMatchIsArray(record.parameters, "Sizes")
    /\ FirstMatchIsArray(record.parameters, "Particle Size Intensity Distribution")

SettingsNames == { "Temperature (°C)", "Attenuator" }

SettingsValueKinds == { "undefined", "number", "string", "boolean", "Float64Array" }

\* The shapes of the forests and trees of n nodes with these names and values.
RECURSIVE SettingsForests(_)
RECURSIVE SettingsTrees(_)
SettingsForests(n) ==
    IF n = 0 THEN { <<>> }
    ELSE UNION { { <<t>> \o f : t \in SettingsTrees(k), f \in SettingsForests(n - k) }
                 : k \in 1..n }

SettingsTrees(n) ==
    [name : SettingsNames, kind : SettingsValueKinds,
     children : SettingsForests(n - 1)]

\* The shape of a record's tree: the x array at the root, the y array as its
\* first child, the forest after it.
MeasuredShape(forest) ==
    [name |-> "Sizes", kind |-> "Float64Array",
     children |-> << [name |-> "Particle Size Intensity Distribution",
                      kind |-> "Float64Array", children |-> <<>>] >> \o forest]

InitSettings ==
    /\ \E n \in 0..MaxSettingsNodes : \E forest \in SettingsForests(n) :
          zmesFile = ZmesFile(<<MeasuredShape(forest)>>)
    /\ projected = FALSE /\ measurements = <<>>
    /\ IdleDecode /\ IdleParse /\ IdleTree /\ IdleExtract /\ IdleConvert
    /\ IdleFind

SpecSettings == InitSettings /\ [][NextProject]_vars

\* The first node in pre-order named `name`, as Some(node), or NULL.
FirstMatch(parameters, name) ==
    LET nodes == PreOrder(parameters)
        hits == { k \in DOMAIN nodes : nodes[k].name = name }
    IN  IF hits = {} THEN NULL
        ELSE Some(nodes[CHOOSE k \in hits : \A j \in hits : k <= j])

\* C22: in the settings of a Measurement each of the eight instrument keys is
\* present iff the first deep-search match for its parameter name has a number
\* value, and then holds that number; a match with a string, boolean or array
\* value or without a value, or no match, leaves the key absent, and the
\* Measurement is produced all the same.
C22_NumericSettingsOnly ==
    projected =>
        /\ Len(measurements) = Len(zmesFile.records)
        /\ { f.settingsKey : f \in InstrumentSettingsFields }
              = { "detectorAngle", "runDuration", "numberOfRuns", "temperature",
                  "attenuator", "attenuationFactor", "cuvettePosition",
                  "laserWavelength" }
        /\ \A i \in DOMAIN measurements : \A f \in InstrumentSettingsFields :
              LET match == FirstMatch(zmesFile.records[i].parameters, f.parameterName)
                  settings == measurements[i].settings
                  isNumber == /\ match # NULL
                              /\ "value" \in DOMAIN match[1]
                              /\ match[1].value.t = "number"
              IN  /\ (f.settingsKey \in DOMAIN settings) = isNumber
                  /\ isNumber => settings[f.settingsKey] = match[1].value.v

\* C22 witness: a Measurement was produced for a record whose first
\* 'Temperature (°C)' has a string value and is followed by one with a number
\* value: settings has no temperature.
C22_Witness ==
    /\ projected /\ Len(measurements) = 1
    /\ LET children == zmesFile.records[1].parameters.children IN
       /\ Len(children) = 3
       /\ children[2].name = "Temperature (°C)"
       /\ children[3].name = "Temperature (°C)"
       /\ "value" \in DOMAIN children[2] /\ children[2].value.t = "string"
       /\ "value" \in DOMAIN children[3] /\ children[3].value.t = "number"
    /\ DOMAIN measurements[1].settings = {"instrument"}

(***************************************************************************)
(* SpecFind: a ZmesParameter tree and a name, then findParameterDeep on    *)
(* the tree or findParameter on its children                               *)
(***************************************************************************)
\* Two names that differ in case only, and a name no node has.
FindNames == { "Sample Name", "sample name" }

SearchedNames == FindNames \cup { "Sample Settings" }

\* Nodes of the same name differ by having a value or not.
FindValueKinds == { "undefined", "number" }

\* The shapes of the forests and trees of n nodes with these names and values.
RECURSIVE FindForests(_)
RECURSIVE FindTrees(_)
FindForests(n) ==
    IF n = 0 THEN { <<>> }
    ELSE UNION { { <<t>> \o f : t \in FindTrees(k), f \in FindForests(n - k) }
                 : k \in 1..n }

FindTrees(n) ==
    [name : FindNames, kind : FindValueKinds, children : FindForests(n - 1)]

InitFind ==
    /\ \E n \in 1..MaxFindNodes : \E shape \in FindTrees(n) :
          findRoot = ParameterOf(shape)
    /\ findName \in SearchedNames
    /\ findCalled = "none" /\ findResult = UNDEFINED
    /\ IdleDecode /\ IdleParse /\ IdleTree /\ IdleExtract /\ IdleConvert
    /\ IdleProject

\* findParameterDeep(findRoot, findName)
FindParameterDeep ==
    /\ findCalled = "none"
    /\ findCalled' = "findParameterDeep"
    /\ findResult' = findParameterDeep(findRoot, findName)
    /\ UNCHANGED <<findRoot, findName>>
    /\ UNCHANGED <<decodeVars, parseVars, treeVars, extractVars, convertVars,
                   projectVars>>

\* findParameter(findRoot.children ?? [], findName)
FindParameter ==
    /\ findCalled = "none"
    /\ findCalled' = "findParameter"
    /\ findResult' = findParameter(ChildrenOf(findRoot), findName)
    /\ UNCHANGED <<findRoot, findName>>
    /\ UNCHANGED <<decodeVars, parseVars, treeVars, extractVars, convertVars,
                   projectVars>>

NextFind == FindParameterDeep \/ FindParameter

SpecFind == InitFind /\ [][NextFind]_vars

\* The positions in PreOrder(findRoot) of the nodes named findName.
PreOrderHits ==
    { k \in DOMAIN PreOrder(findRoot) : PreOrder(findRoot)[k].name = findName }

\* C12: findParameterDeep returns the first node in pre-order of the subtree,
\* the root included, whose name equals the searched name exactly, and
\* undefined iff no node of the subtree has that name.
C12_DeepFirstPreOrderMatch ==
    findCalled = "findParameterDeep" =>
        IF PreOrderHits = {} THEN findResult = NULL
        ELSE findResult =
                Some(PreOrder(findRoot)[CHOOSE k \in PreOrderHits :
                                           \A j \in PreOrderHits : k <= j])

\* C12 witness: findParameterDeep has run on a root of another name whose
\* first child, of another name too, has a child of the searched name, and
\* whose second child has the searched name and a different value: the
\* grandchild is returned.
C12_Witness ==
    /\ findCalled = "findParameterDeep"
    /\ findRoot.name # findName
    /\ Len(ChildrenOf(findRoot)) = 2
    /\ findRoot.children[1].name # findName
    /\ Len(ChildrenOf(findRoot.children[1])) = 1
    /\ findRoot.children[1].children[1].name = findName
    /\ findRoot.children[2].name = findName
    /\ findRoot.children[2] # findRoot.children[1].children[1]
    /\ findResult = Some(findRoot.children[1].children[1])

\* The positions in the children of findRoot of the children named findName.
ChildHits ==
    { k \in DOMAIN ChildrenOf(findRoot) : ChildrenOf(findRoot)[k].name = findName }

\* C13: findParameter returns the first element of children whose name equals
\* the searched name exactly, and undefined when no element has it, be there
\* a deeper descendant of that name or not.
C13_ShallowFirstChildMatch ==
    findCalled = "findParameter" =>
        IF ChildHits = {} THEN findResult = NULL
        ELSE findResult =
                Some(ChildrenOf(findRoot)[CHOOSE k \in ChildHits :
                                             \A j \in ChildHits : k <= j])

\* C13 witness: findParameter has run on the two children of a root; neither
\* has the searched name, a child of the first has it, and the result is
\* undefined.
C13_Witness ==
    /\ findCalled = "findParameter"
    /\ Len(ChildrenOf(findRoot)) = 2
    /\ ChildHits = {}
    /\ Len(ChildrenOf(findRoot.children[1])) = 1
    /\ findRoot.children[1].children[1].name = findName
    /\ findResult = NULL
=============================================================================
